---- MODULE Spec2Model ----
(***************************************************************************)
(* Model of the chunking and context-assembly pipeline of hmo-buddy-chat:  *)
(*   backend/document_processor.py   DocumentProcessor.chunk_text,         *)
(*                                   process_document                      *)
(*   backend/load_documents.py       DocumentLoader.chunk_text             *)
(*   backend/main.py                 /api/chat, /api/upload,               *)
(*                                   /api/documents, load_initial_documents*)
(*   backend/vector_store.py         VectorStore.search, add_documents,    *)
(*                                   delete_documents, reset               *)
(*   backend/rag_service.py          RAGService                            *)
(*   backend/improved_rag_service.py ImprovedRAGService                    *)
(* Strings are sequences of one-character strings; positions are the       *)
(* 0-based positions of Python, so text[i] of the source is text[i + 1].   *)
(***************************************************************************)
EXTENDS Integers, Sequences, FiniteSets, TLC

\* ------------------------------------------------------------- bounds ----
MaxLen == 6
MaxChunkSize == 4

\* ------------------------------------------------------------ helpers ----
Min(a, b) == IF a <= b THEN a ELSE b

SetMax(S) == CHOOSE x \in S : \A y \in S : y <= x

SetMin(S) == CHOOSE x \in S : \A y \in S : x <= y

\* the characters the texts are drawn from: a letter, a blank, a full stop
Alphabet == {"a", " ", "."}

\* what str.strip() removes
Whitespace == {" ", "\n", "\t"}

Texts == UNION {[1..n -> Alphabet] : n \in 0..MaxLen}

\* s.rfind(ch, lo, hi) for a one-character ch and 0 <= lo: the highest
\* 0-based position in [lo, min(hi, len(s))) holding ch, or -1
RFind(s, ch, lo, hi) ==
  LET P == {i \in lo..(Min(hi, Len(s)) - 1) : s[i + 1] = ch}
  IN  IF P = {} THEN -1 ELSE SetMax(P)

\* s[lo:hi] for 0 <= lo, 0 <= hi (both clamped to len(s))
Slice(s, lo, hi) ==
  LET l == Min(lo, Len(s))
      h == Min(hi, Len(s))
  IN  IF h <= l THEN << >> ELSE SubSeq(s, l + 1, h)

Strip_None(s) == s

\* s.strip()
Strip(s) ==
  LET P == {i \in 1..Len(s) : s[i] \notin Whitespace}
  IN  IF P = {} THEN << >> ELSE SubSeq(s, SetMin(P), SetMax(P))

\* ------------------------------------------------ DocumentProcessor ------
VARIABLES text, chunk_size, chunk_overlap, start, chunks, cuts, cpc

VARIABLES index, rpc, req, retr, contexts, sent, prompt, outcome

\* the HTTP exchange of main.py's /api/chat
VARIABLES http

\* DocumentLoader.chunk_text
VARIABLES lstart, lchunks, lcuts, lpc

\* DocumentProcessor.process_document
VARIABLES caller_metadata, processed_chunks

\* the documents directory of main.py, the outcome of the last store
\* operation, and a VectorStore.search call that runs beside other writers
VARIABLES documents_dir, last_op, search_call

lvars == <<lstart, lchunks, lcuts, lpc>>

pvars == <<caller_metadata, processed_chunks>>

svars == <<documents_dir, last_op, search_call>>

cvars == <<text, chunk_size, chunk_overlap, start, chunks, cuts, cpc>>

\* the precondition of the chunker: chunk_size > 0, 0 <= overlap < chunk_size
ValidConfig == chunk_size > 0 /\ 0 <= chunk_overlap /\ chunk_overlap < chunk_size

CutEnd_NoMidpoint(t, st, cs) ==
  LET end == st + cs
      sentence_end == RFind(t, ".", st, end)
      space == RFind(t, " ", st, end)
  IN  IF end < Len(t)
      THEN IF sentence_end # -1 /\ sentence_end > st
           THEN sentence_end + 1
           ELSE IF space # -1 /\ space > st
                THEN space
                ELSE end
      ELSE end

\* the end of the slice that starts at st: the hard end st + chunk_size,
\* moved back to a sentence end or a blank past the midpoint
CutEnd(t, st, cs) ==
  LET end == st + cs
      sentence_end == RFind(t, ".", st, end)
      space == RFind(t, " ", st, end)
  IN  IF end < Len(t)
      THEN IF sentence_end # -1 /\ sentence_end > st + (cs \div 2)
           THEN sentence_end + 1
           ELSE IF space # -1 /\ space > st + (cs \div 2)
                THEN space
                ELSE end
      ELSE end

\* the cursor values the loop has already processed
StartsSeen == {cuts[k][1] : k \in 1..Len(cuts)}

\* one iteration of `while start < text_length`, up to the break test.
\* cuts records the slice [start, end) of every iteration.  An iteration from
\* a cursor value that was processed before repeats that earlier iteration
\* forever (the body is a function of text and start), so it is not taken.
ChunkIter ==
  /\ cpc = "loop"
  /\ start < Len(text)
  /\ start \notin StartsSeen
  /\ LET end == CutEnd(text, start, chunk_size)
         chunk == Strip(Slice(text, start, end))
         nstart == end - chunk_overlap
     IN  /\ chunks' = IF chunk # << >> THEN Append(chunks, chunk) ELSE chunks
         /\ cuts' = Append(cuts, <<start, end>>)
         /\ start' = nstart
         /\ cpc' = IF nstart <= 0 \/ nstart >= Len(text) THEN "done" ELSE "loop"
  /\ UNCHANGED <<text, chunk_size, chunk_overlap>>
  /\ UNCHANGED <<index, rpc, req, retr, contexts, sent, prompt, outcome>>
  /\ UNCHANGED <<http, lvars, pvars, svars>>

\* the loop condition fails: return chunks
ChunkReturn ==
  /\ cpc = "loop"
  /\ ~(start < Len(text))
  /\ cpc' = "done"
  /\ UNCHANGED <<text, chunk_size, chunk_overlap, start, chunks, cuts>>
  /\ UNCHANGED <<index, rpc, req, retr, contexts, sent, prompt, outcome>>
  /\ UNCHANGED <<http, lvars, pvars, svars>>

\* ------------------------------------------- process_document ----------
\* a mapping with no key: {}
EmptyDict == [k \in {} |-> 0]

NoMetadataArg == [is_none |-> TRUE, dict |-> EmptyDict]

\* the document that is processed
FilePath == "/docs/doc.txt"

\* os.path.basename(file_path)
FileName == "doc.txt"

\* the metadata argument: None, {} or a mapping of the caller
MetadataArgs ==
  { NoMetadataArg,
    [is_none |-> FALSE, dict |-> EmptyDict],
    [is_none |-> FALSE, dict |-> [filename |-> "doc.txt"]],
    [is_none |-> FALSE, dict |-> [source |-> "upload", owner |-> "hr"]] }

\* d.update(u), as a value
Update(d, u) ==
  [k \in DOMAIN d \cup DOMAIN u |-> IF k \in DOMAIN u THEN u[k] ELSE d[k]]

\* `metadata or {}` is the caller's own mapping when that is a non-empty dict
Aliased(arg) == ~arg.is_none /\ DOMAIN arg.dict # {}

\* base_metadata after base_metadata.update({'source': ..., 'file_path': ...})
BaseMetadata(arg) ==
  Update(IF Aliased(arg) THEN arg.dict ELSE EmptyDict,
         [source |-> FileName, file_path |-> FilePath])

Annotate_OneBased(chs, base) ==
  [i \in 1..Len(chs) |->
     [text |-> chs[i],
      metadata |-> Update(base, [chunk_index |-> i, total_chunks |-> Len(chs)])]]

\* the loop over enumerate(chunks): a copy of base_metadata per chunk with
\* chunk_index and total_chunks
Annotate(chs, base) ==
  [i \in 1..Len(chs) |->
     [text |-> chs[i],
      metadata |-> Update(base, [chunk_index |-> i - 1, total_chunks |-> Len(chs)])]]

\* process_document after chunk_text has returned: build the metadata and
\* the records.  base_metadata.update writes into the caller's mapping when
\* base_metadata is that mapping
ProcessDocument ==
  /\ cpc = "done"
  /\ \E arg \in MetadataArgs :
       /\ caller_metadata' =
            [before |-> arg,
             after |-> IF Aliased(arg)
                       THEN [is_none |-> FALSE, dict |-> BaseMetadata(arg)]
                       ELSE arg]
       /\ processed_chunks' = Annotate(chunks, BaseMetadata(arg))
  /\ cpc' = "returned"
  /\ UNCHANGED <<text, chunk_size, chunk_overlap, start, chunks, cuts>>
  /\ UNCHANGED <<index, rpc, req, retr, contexts, sent, prompt, outcome>>
  /\ UNCHANGED <<http, lvars, svars>>

ChunkNext == ChunkIter \/ ChunkReturn \/ ProcessDocument

\* ------------------------------------------------- retrieval and chat ---
MaxIndex == 3
MaxN == 3
MaxHist == 11

\* similarities and distances are counted in tenths: Scale is 1.0
Scale == 10

\* conversation_history[-10:]
HistoryCap == 10

\* min_similarity: float = 0.0
DefaultMinSimilarity == 0

Services == {"RAGService", "ImprovedRAGService"}

Ops == {"retrieve_context", "format_prompt_with_context", "generate_response", "chat"}

Queries == {"q0", "q1"}

\* the (text, metadata) pairs a write can put into the index; the last one
\* carries no 'source' key.  Every entry has a metadata mapping, as every
\* write of main.py and load_documents.py gives it
Entries ==
  { [text |-> "d0", metadata |-> [source |-> "a.txt"]],
    [text |-> "d1", metadata |-> [source |-> "a.txt"]],
    [text |-> "d2", metadata |-> [filename |-> "c.txt"]] }

\* min_similarity values a caller passes, in tenths
MinSims == {-5, DefaultMinSimilarity, 3}

\* system_prompt: Optional[str]
None == "<None>"

SystemPrompts == {None, "custom prompt"}

\* the call of a search that fails, if any: ollama.embeddings,
\* collection.count or collection.query
Faults == {"none", "embed", "count", "query"}

\* the embedding gateway: ollama.embeddings maps a text to a vector, here a
\* point on a line
Embed(t) ==
  CASE t = "q0" -> 0
    [] t = "q1" -> 2
    [] t = "d0" -> 0
    [] t = "d1" -> 1
    [] t = "d2" -> 2

\* the cosine distance of two embeddings, in tenths, within [0, 2.0]
Dist(a, b) == 7 * (IF a >= b THEN a - b ELSE b - a)

\* collection.query: the positions of the k nearest entries, nearest first
RECURSIVE Nearest(_, _, _, _)
Nearest(idx, qe, S, k) ==
  IF k <= 0 \/ S = {} THEN << >>
  ELSE LET d(i) == Dist(qe, Embed(idx[i].text))
           best == CHOOSE i \in S :
                     \A j \in S : d(i) < d(j) \/ (d(i) = d(j) /\ i <= j)
       IN  <<best>> \o Nearest(idx, qe, S \ {best}, k - 1)

\* collection.query(query_embeddings=[qe], n_results=k): the result rows
\* (documents[0][i], metadatas[0][i], distances[0][i])
IndexQuery(idx, qe, k) ==
  LET pos == Nearest(idx, qe, 1..Len(idx), k)
  IN  [i \in 1..Len(pos) |->
         [document |-> idx[pos[i]].text,
          metadata |-> idx[pos[i]].metadata,
          distance |-> Dist(qe, Embed(idx[pos[i]].text))]]

Search_NoClamp(idx, query, n_results, fault) ==
  IF fault = "embed"
  THEN [raised |-> TRUE, error |-> "embedding", k |-> -1, results |-> << >>]
  ELSE IF fault = "count"
  THEN [raised |-> TRUE, error |-> "index", k |-> -1, results |-> << >>]
  ELSE IF fault = "query"
  THEN [raised |-> TRUE, error |-> "index", k |-> n_results, results |-> << >>]
  ELSE [raised |-> FALSE, error |-> "none", k |-> n_results,
        results |-> IndexQuery(idx, Embed(query), n_results)]

\* VectorStore.search: embed the query, clamp n_results to the collection
\* count, query; every failure is logged and raised again
Search(idx, query, n_results, fault) ==
  IF fault = "embed"
  THEN [raised |-> TRUE, error |-> "embedding", k |-> -1, results |-> << >>]
  ELSE IF fault = "count"
  THEN [raised |-> TRUE, error |-> "index", k |-> -1, results |-> << >>]
  ELSE LET collection_count == Len(idx)
           adjusted_n_results == Min(n_results, collection_count)
       IN  IF fault = "query"
           THEN [raised |-> TRUE, error |-> "index",
                 k |-> adjusted_n_results, results |-> << >>]
           ELSE [raised |-> FALSE, error |-> "none",
                 k |-> adjusted_n_results,
                 results |-> IndexQuery(idx, Embed(query), adjusted_n_results)]

\* similarity = 1 - distance
Similarity(distance) == Scale - distance

Qualifies_Strict(similarity, min_similarity) == similarity > min_similarity

\* if similarity >= min_similarity
Qualifies(similarity, min_similarity) == similarity >= min_similarity

\* the loop of retrieve_context over the result rows
RECURSIVE FilterContexts(_, _)
FilterContexts(results, min_similarity) ==
  IF results = << >> THEN << >>
  ELSE LET distance == Head(results).distance
           similarity == Similarity(distance)
           rest == FilterContexts(Tail(results), min_similarity)
       IN  IF Qualifies(similarity, min_similarity)
           THEN <<[text |-> Head(results).document,
                   metadata |-> Head(results).metadata,
                   similarity |-> similarity]>> \o rest
           ELSE rest

RetrieveContext_Propagate(idx, query, n_results, min_similarity, fault) ==
  LET s == Search(idx, query, n_results, fault)
  IN  IF s.raised
      THEN [raised |-> TRUE, value |-> << >>, search |-> s]
      ELSE [raised |-> FALSE,
            value |-> FilterContexts(s.results, min_similarity),
            search |-> s]

RetrieveContext_IndexRaises(idx, query, n_results, min_similarity, fault) ==
  LET s == Search(idx, query, n_results, fault)
  IN  IF s.raised
      THEN [raised |-> (s.error = "index"), value |-> << >>, search |-> s]
      ELSE [raised |-> FALSE,
            value |-> FilterContexts(s.results, min_similarity),
            search |-> s]

\* retrieve_context: search and filter; `except Exception: return []`
RetrieveContext(idx, query, n_results, min_similarity, fault) ==
  LET s == Search(idx, query, n_results, fault)
  IN  IF s.raised
      THEN [raised |-> FALSE, value |-> << >>, search |-> s]
      ELSE [raised |-> FALSE,
            value |-> FilterContexts(s.results, min_similarity),
            search |-> s]

\* ctx['metadata'].get('source', 'Unknown')
Source(metadata) ==
  IF "source" \in DOMAIN metadata THEN metadata.source ELSE "Unknown"

\* "\n\n".join(parts), parts being strings (token sequences)
RECURSIVE Join(_)
Join(parts) ==
  IF parts = << >> THEN << >>
  ELSE IF Len(parts) = 1 THEN parts[1]
  ELSE parts[1] \o <<"\n\n">> \o Join(Tail(parts))

\* format_prompt_with_context past its `if not contexts` test
FormatWithContext(svc, query, ctxs, system_prompt) ==
  IF svc = "RAGService"
  THEN LET context_text ==
             Join([i \in 1..Len(ctxs) |->
                     <<"[Source: ", Source(ctxs[i].metadata), "]\n",
                       ctxs[i].text>>])
           sp == IF system_prompt = None
                 THEN "You are HMO Buddy ... INSTRUCTIONS ..."
                 ELSE system_prompt
       IN  <<sp, "\n\nCONTEXT:\n">> \o context_text
             \o <<"\n\nUSER QUESTION:\n", query, "\n\nANSWER:">>
  ELSE LET context_text ==
             Join([i \in 1..Len(ctxs) |->
                     <<"Document ", ToString(i), " (from ",
                       Source(ctxs[i].metadata), ", relevance: ",
                       ToString(ctxs[i].similarity), "):\n",
                       ctxs[i].text>>])
           sp == IF system_prompt = None
                 THEN "You are a helpful assistant that answers questions based on provided documents ..."
                 ELSE system_prompt
       IN  <<sp, "\n\n====\nRELEVANT DOCUMENTS\n====\n\n">> \o context_text
             \o <<"\n\n====\nEND OF DOCUMENTS\n====\n\nUSER QUESTION: ", query,
                  "\n\nPlease provide a clear, comprehensive answer ...\n\nANSWER:">>

FormatPrompt_NoGuard(svc, query, ctxs, system_prompt) ==
  FormatWithContext(svc, query, ctxs, system_prompt)

\* format_prompt_with_context of both services
FormatPrompt(svc, query, ctxs, system_prompt) ==
  IF ctxs = << >> THEN <<query>>
  ELSE FormatWithContext(svc, query, ctxs, system_prompt)

\* the prompt generate_response sends as its single user message
ResponseMessages(svc, query, ctxs, system_prompt) ==
  LET content == IF ctxs # << >>
                THEN FormatPrompt(svc, query, ctxs, system_prompt)
                ELSE <<query>>
  IN  <<[role |-> "user", content |-> content]>>

\* the i-th message of a caller's conversation history
HistMsg(i) ==
  [role |-> IF i % 2 = 1 THEN "user" ELSE "assistant",
   content |-> <<"turn ", ToString(i)>>]

History(h) == [i \in 1..h |-> HistMsg(i)]

\* s[-n:]
LastN(s, n) == IF Len(s) <= n THEN s ELSE SubSeq(s, Len(s) - n + 1, Len(s))

\* the system message RAGService.chat sends when it has no context
NoContextSystem ==
  [role |-> "system",
   content |-> <<"You are HMO Buddy ... Provide accurate and helpful information based on your knowledge.">>]

ChatSystem_NoElse(svc, ctxs) ==
  IF ctxs # << >>
  THEN <<[role |-> "system",
          content |-> <<"instructions", "CONTEXT:\n">>
             \o Join([i \in 1..Len(ctxs) |-> <<ctxs[i].text>>])]>>
  ELSE << >>

\* the system message of chat, if any
ChatSystem(svc, ctxs) ==
  IF svc = "RAGService"
  THEN IF ctxs # << >>
       THEN <<[role |-> "system",
               content |-> <<"You are HMO Buddy ... IMPORTANT INSTRUCTIONS ...",
                             "CONTEXT:\n">>
                  \o Join([i \in 1..Len(ctxs) |->
                            <<"[Source: ", Source(ctxs[i].metadata), "]\n",
                              ctxs[i].text>>])
                  \o <<"\n">>]>>
       ELSE <<NoContextSystem>>
  ELSE IF ctxs # << >>
       THEN <<[role |-> "system",
               content |-> <<"You are a helpful assistant. Use the following documents to answer questions:\n\n",
                             "====\n">>
                  \o Join([i \in 1..Len(ctxs) |->
                            <<"[Document ", ToString(i), " from ",
                              Source(ctxs[i].metadata), "]:\n",
                              ctxs[i].text>>])
                  \o <<"\n====\n\n", "When answering: ...">>]>>
       ELSE << >>

\* the history chat forwards
ChatHistory(svc, conversation_history) ==
  IF conversation_history = << >> THEN << >>
  ELSE IF svc = "RAGService"
       THEN LastN(conversation_history, HistoryCap)
       ELSE conversation_history

\* the message list chat sends
ChatMessages(svc, query, ctxs, conversation_history) ==
  ChatSystem(svc, ctxs)
    \o ChatHistory(svc, conversation_history)
    \o <<[role |-> "user", content |-> <<query>>]>>

\* ------------------------------------------------ requests as steps -----
rvars == <<index, rpc, req, retr, contexts, sent, prompt, outcome>>

vars == <<text, chunk_size, chunk_overlap, start, chunks, cuts, cpc,
          index, rpc, req, retr, contexts, sent, prompt, outcome,
          http, lstart, lchunks, lcuts, lpc, caller_metadata, processed_chunks,
          documents_dir, last_op, search_call>>

NoSearch == [raised |-> FALSE, error |-> "none", k |-> -1, results |-> << >>]

\* no request in progress
NoReq ==
  [svc |-> "none", op |-> "none", query |-> "none", use_context |-> FALSE,
   n_results |-> 0, min_similarity |-> DefaultMinSimilarity,
   system_prompt |-> None, history |-> << >>]

\* retrieve_context not called yet
NoRetr ==
  [called |-> FALSE, fault |-> "none", raised |-> FALSE, value |-> << >>,
   search |-> NoSearch]

\* no HTTP exchange
NoHttp ==
  [stream |-> FALSE, gateway |-> "none", status |-> 0, body |-> << >>,
   has_sources |-> FALSE, sources |-> << >>]

\* no store operation has run
NoOp == [op |-> "none", status |-> 0]

\* no search call in progress
NoCall ==
  [pc |-> "idle", n_results |-> 0, collection_count |-> -1, k |-> -1,
   cardinality |-> -1]

RagIdle ==
  /\ documents_dir = {}
  /\ last_op = NoOp
  /\ search_call = NoCall
  /\ http = NoHttp
  /\ index = << >>
  /\ rpc = "idle"
  /\ req = NoReq
  /\ retr = NoRetr
  /\ contexts = << >>
  /\ sent = << >>
  /\ prompt = << >>
  /\ outcome = "none"

\* the chunker at rest, for the specifications that do not run it
ChunkIdle ==
  /\ lstart = 0
  /\ lchunks = << >>
  /\ lcuts = << >>
  /\ lpc = "off"
  /\ caller_metadata = [before |-> NoMetadataArg, after |-> NoMetadataArg]
  /\ processed_chunks = << >>
  /\ text = << >>
  /\ chunk_size = 0
  /\ chunk_overlap = 0
  /\ start = 0
  /\ chunks = << >>
  /\ cuts = << >>
  /\ cpc = "done"

\* VectorStore.add_documents: embed every text, then one collection.add;
\* a failing embedding raises before the write
AddDocuments ==
  /\ rpc = "idle"
  /\ \E n \in 1..2 : \E batch \in [1..n -> Entries] : \E ok \in BOOLEAN :
       /\ Len(index) + n <= MaxIndex
       /\ index' = IF ok THEN index \o batch ELSE index
  /\ UNCHANGED <<rpc, req, retr, contexts, sent, prompt, outcome>>
  /\ UNCHANGED <<cvars, lvars, pvars, http, svars>>

\* a caller enters retrieve_context, generate_response or chat.  RAGService's
\* generate_response and chat have no min_similarity parameter: they retrieve
\* with the default
StartRequest ==
  /\ rpc = "idle"
  /\ \E svc \in Services, op \in Ops \ {"format_prompt_with_context"},
        q \in Queries, uc \in BOOLEAN, n \in 1..MaxN, ms \in MinSims,
        sp \in SystemPrompts, h \in 0..MaxHist :
       /\ op = "retrieve_context" => (uc /\ sp = None)
       /\ op # "generate_response" => sp = None
       /\ op # "chat" => h = 0
       /\ (svc = "RAGService" /\ op # "retrieve_context")
             => ms = DefaultMinSimilarity
       /\ req' = [svc |-> svc, op |-> op, query |-> q, use_context |-> uc,
                  n_results |-> n, min_similarity |-> ms,
                  system_prompt |-> sp, history |-> History(h)]
  /\ rpc' = "retrieve"
  /\ UNCHANGED <<index, retr, contexts, sent, prompt, outcome>>
  /\ UNCHANGED <<cvars, lvars, pvars, http, svars>>

\* `contexts = self.retrieve_context(...)` (or the direct call); a failure of
\* the embedding gateway or of the index is an input.  An exception out of
\* retrieve_context would leave generate_response and chat through their
\* `except: raise`
Retrieve ==
  /\ rpc = "retrieve"
  /\ req.use_context
  /\ \E fault \in Faults :
       LET r == RetrieveContext(index, req.query, req.n_results,
                                req.min_similarity, fault)
       IN  /\ retr' = [called |-> TRUE, fault |-> fault, raised |-> r.raised,
                       value |-> r.value, search |-> r.search]
           /\ contexts' = r.value
           /\ IF r.raised
              THEN rpc' = "done" /\ outcome' = "error"
              ELSE IF req.op = "retrieve_context"
                   THEN rpc' = "done" /\ outcome' = "ok"
                   ELSE rpc' = "complete" /\ outcome' = outcome
  /\ UNCHANGED <<index, req, sent, prompt>>
  /\ UNCHANGED <<cvars, lvars, pvars, http, svars>>

\* use_context is false: contexts stays []
SkipRetrieval ==
  /\ rpc = "retrieve"
  /\ ~req.use_context
  /\ contexts' = << >>
  /\ rpc' = "complete"
  /\ UNCHANGED <<index, req, retr, sent, prompt, outcome>>
  /\ UNCHANGED <<cvars, lvars, pvars, http, svars>>

\* build the messages and call ollama.chat once; the gateway answers or raises
Complete ==
  /\ rpc = "complete"
  /\ LET messages ==
           IF req.op = "generate_response"
           THEN ResponseMessages(req.svc, req.query, contexts, req.system_prompt)
           ELSE ChatMessages(req.svc, req.query, contexts, req.history)
     IN  /\ sent' = Append(sent, messages)
         /\ prompt' = IF req.op = "generate_response"
                      THEN messages[1].content ELSE prompt
  /\ \E ok \in BOOLEAN : outcome' = IF ok THEN "ok" ELSE "error"
  /\ rpc' = "done"
  /\ UNCHANGED <<index, req, retr, contexts>>
  /\ UNCHANGED <<cvars, lvars, pvars, http, svars>>

\* a direct call of format_prompt_with_context(query, contexts, system_prompt)
\* with no records or with the records a retrieval over the index gives
FormatCall ==
  /\ rpc = "idle"
  /\ \E svc \in Services, q \in Queries, sp \in SystemPrompts :
     \E ctxs \in {<< >>, RetrieveContext(index, q, MaxN, DefaultMinSimilarity,
                                         "none").value} :
       /\ req' = [NoReq EXCEPT !.svc = svc,
                               !.op = "format_prompt_with_context",
                               !.query = q, !.system_prompt = sp]
       /\ contexts' = ctxs
       /\ prompt' = FormatPrompt(svc, q, ctxs, sp)
  /\ rpc' = "done"
  /\ outcome' = "ok"
  /\ UNCHANGED <<index, retr, sent>>
  /\ UNCHANGED <<cvars, lvars, pvars, http, svars>>

\* the call is over; the next one starts from scratch
Finish ==
  /\ rpc = "done"
  /\ rpc' = "idle"
  /\ req' = NoReq
  /\ retr' = NoRetr
  /\ contexts' = << >>
  /\ sent' = << >>
  /\ prompt' = << >>
  /\ outcome' = "none"
  /\ UNCHANGED index
  /\ UNCHANGED <<cvars, lvars, pvars, http, svars>>

RagInit == ChunkIdle /\ RagIdle

RagNext ==
  \/ AddDocuments
  \/ StartRequest
  \/ Retrieve
  \/ SkipRetrieval
  \/ Complete
  \/ FormatCall
  \/ Finish

RagSpec == RagInit /\ [][RagNext]_vars

\* ---------------------------------------------- main.py: /api/chat ------
\* n_context_docs: int = 6
DefaultNContext == 6

\* rag_service.retrieve_context(request.message, n_results=3)
SourcesN == 3

\* how the completion gateway fails, if it does: when ollama.chat is called,
\* or while a streamed answer is read
GatewayFaults == {"none", "call", "mid"}

\* f"\n\n[Error: {str(e)}]"
ErrorText == "\n\n[Error: ...]"

\* POST /api/chat: the handler is entered; with request.stream the
\* StreamingResponse (status 200) is returned before anything is computed
ApiChat ==
  /\ rpc = "idle"
  /\ \E q \in Queries, uc \in BOOLEAN, st \in BOOLEAN, h \in {0, MaxHist} :
       /\ req' = [svc |-> "RAGService", op |-> "api_chat", query |-> q,
                  use_context |-> uc, n_results |-> DefaultNContext,
                  min_similarity |-> DefaultMinSimilarity,
                  system_prompt |-> None, history |-> History(h)]
       /\ http' = [NoHttp EXCEPT !.stream = st,
                                 !.status = IF st THEN 200 ELSE 0]
  /\ rpc' = "retrieve"
  /\ UNCHANGED <<index, retr, contexts, sent, prompt, outcome>>
  /\ UNCHANGED <<cvars, lvars, pvars, svars>>

\* rag_service.chat builds the messages and calls ollama.chat.  Streaming:
\* stream_generator yields the fragments and, on any exception, the error text.
\* Non-streaming: an exception becomes HTTPException(500)
ApiComplete ==
  /\ rpc = "complete"
  /\ req.op = "api_chat"
  /\ sent' = Append(sent, ChatMessages(req.svc, req.query, contexts, req.history))
  /\ \E g \in GatewayFaults :
       /\ g = "mid" => http.stream
       /\ outcome' = IF g = "none" THEN "ok" ELSE "error"
       /\ IF http.stream
          THEN /\ http' = [http EXCEPT
                             !.gateway = g,
                             !.body = CASE g = "none" -> <<"fragment 1", "fragment 2">>
                                        [] g = "call" -> <<ErrorText>>
                                        [] g = "mid"  -> <<"fragment 1", ErrorText>>]
               /\ rpc' = "done"
          ELSE IF g = "none"
               THEN /\ http' = [http EXCEPT !.gateway = g]
                    /\ rpc' = "sources"
               ELSE /\ http' = [http EXCEPT !.gateway = g, !.status = 500]
                    /\ rpc' = "done"
  /\ UNCHANGED <<index, req, retr, contexts, prompt>>
  /\ UNCHANGED <<cvars, lvars, pvars, svars>>

\* the sources of the non-streaming answer: a second retrieve_context with
\* n_results=3, then ChatResponse(response, sources)
ApiSources ==
  /\ rpc = "sources"
  /\ IF req.use_context
     THEN \E fault \in Faults :
            LET r == RetrieveContext(index, req.query, SourcesN,
                                     DefaultMinSimilarity, fault)
            IN  http' = [http EXCEPT
                           !.status = 200,
                           !.body = <<"answer">>,
                           !.has_sources = TRUE,
                           !.sources = [i \in 1..Len(r.value) |->
                                          [source |-> Source(r.value[i].metadata),
                                           similarity |-> r.value[i].similarity]]]
     ELSE http' = [http EXCEPT !.status = 200, !.body = <<"answer">>]
  /\ rpc' = "done"
  /\ UNCHANGED <<index, req, retr, contexts, sent, prompt, outcome>>
  /\ UNCHANGED <<cvars, lvars, pvars, svars>>

\* the exchange is over
ApiFinish ==
  /\ rpc = "done"
  /\ rpc' = "idle"
  /\ req' = NoReq
  /\ retr' = NoRetr
  /\ contexts' = << >>
  /\ sent' = << >>
  /\ prompt' = << >>
  /\ outcome' = "none"
  /\ http' = NoHttp
  /\ UNCHANGED index
  /\ UNCHANGED <<cvars, lvars, pvars, svars>>

ApiInit == ChunkIdle /\ RagIdle

ApiNext ==
  \/ AddDocuments
  \/ ApiChat
  \/ Retrieve
  \/ SkipRetrieval
  \/ ApiComplete
  \/ ApiSources
  \/ ApiFinish

ApiSpec == ApiInit /\ [][ApiNext]_vars

\* chunk_text is entered with any text under any configuration
ChunkInit ==
  /\ RagIdle
  /\ lstart = 0
  /\ lchunks = << >>
  /\ lcuts = << >>
  /\ lpc = "off"
  /\ caller_metadata = [before |-> NoMetadataArg, after |-> NoMetadataArg]
  /\ processed_chunks = << >>
  /\ text \in Texts
  /\ chunk_size \in 0..MaxChunkSize
  /\ chunk_overlap \in 0..MaxChunkSize
  /\ start = 0
  /\ chunks = << >>
  /\ cuts = << >>
  /\ cpc = "loop"

ChunkSpec == ChunkInit /\ [][ChunkNext]_vars

\* ------------------------------------- DocumentLoader.chunk_text -------
LoaderMaxLen == 5

\* a letter, a blank, a full stop, a line feed
LoaderAlphabet == {"a", " ", ".", "\n"}

LoaderTexts == UNION {[1..n -> LoaderAlphabet] : n \in 0..LoaderMaxLen}

\* how a slice or a find range reads position i of a string of length n:
\* a negative i counts from the end, and the result is clamped to 0..n
Norm(i, n) == IF i < 0 THEN (IF i + n < 0 THEN 0 ELSE i + n) ELSE Min(i, n)

PySlice_Inclusive(s, lo, hi) ==
  LET l == Norm(lo, Len(s))
      h == Norm(hi + 1, Len(s))
  IN  IF h <= l THEN << >> ELSE SubSeq(s, l + 1, h)

\* s[lo:hi] for any integers lo, hi
PySlice(s, lo, hi) ==
  LET l == Norm(lo, Len(s))
      h == Norm(hi, Len(s))
  IN  IF h <= l THEN << >> ELSE SubSeq(s, l + 1, h)

\* s.rfind(c1 + c2, lo, hi) for any integers lo, hi: the highest position p
\* with the two characters at p, p + 1 inside s[lo:hi], or -1
RFind2(s, c1, c2, lo, hi) ==
  LET l == Norm(lo, Len(s))
      h == Norm(hi, Len(s))
      P == {p \in l..(h - 2) : s[p + 1] = c1 /\ s[p + 2] = c2}
  IN  IF P = {} THEN -1 ELSE SetMax(P)

\* the end of the loader's slice that starts at st: the hard end, moved back
\* to the last paragraph break, else to the last sentence break
LoaderCutEnd(t, st, cs) ==
  LET end == st + cs
      paragraph_break == RFind2(t, "\n", "\n", st, end)
      sentence_break == SetMax({RFind2(t, ".", " ", st, end),
                                RFind2(t, "!", " ", st, end),
                                RFind2(t, "?", " ", st, end)})
  IN  IF end < Len(t)
      THEN IF paragraph_break # -1 /\ paragraph_break > st
           THEN paragraph_break
           ELSE IF sentence_break # -1 /\ sentence_break > st
                THEN sentence_break + 1
                ELSE end
      ELSE end

\* the cursor values the loader's loop has already processed
LoaderStartsSeen == {lcuts[k][1] : k \in 1..Len(lcuts)}

\* one iteration of the loader's `while start < text_length`.  lcuts records
\* the slice [start, end) of every iteration.  An iteration from a cursor value
\* that was processed before repeats forever and is not taken; nor is one whose
\* end is at or below -len(text): from there every slice is text[0:0] and the
\* cursor never rises again.
LoaderIter ==
  /\ lpc = "loop"
  /\ lstart < Len(text)
  /\ lstart \notin LoaderStartsSeen
  /\ lstart + chunk_size > 0 - Len(text)
  /\ LET end == LoaderCutEnd(text, lstart, chunk_size)
         chunk == Strip(PySlice(text, lstart, end))
     IN  /\ lchunks' = IF chunk # << >>
                       THEN Append(lchunks, [text |-> chunk,
                                             chunk_index |-> Len(lchunks),
                                             char_start |-> lstart,
                                             char_end |-> end])
                       ELSE lchunks
         /\ lcuts' = Append(lcuts, <<lstart, end>>)
         /\ lstart' = IF end < Len(text) THEN end - chunk_overlap ELSE Len(text)
  /\ UNCHANGED lpc
  /\ UNCHANGED <<cvars, pvars, http, svars>>
  /\ UNCHANGED <<index, rpc, req, retr, contexts, sent, prompt, outcome>>

\* the loader's loop condition fails: return chunks
LoaderReturn ==
  /\ lpc = "loop"
  /\ ~(lstart < Len(text))
  /\ lpc' = "done"
  /\ UNCHANGED <<lstart, lchunks, lcuts>>
  /\ UNCHANGED <<cvars, pvars, http, svars>>
  /\ UNCHANGED <<index, rpc, req, retr, contexts, sent, prompt, outcome>>

\* one of the two chunkers is entered with any text under any configuration
ChunkersInit ==
  /\ RagIdle
  /\ caller_metadata = [before |-> NoMetadataArg, after |-> NoMetadataArg]
  /\ processed_chunks = << >>
  /\ text \in LoaderTexts
  /\ chunk_size \in 0..MaxChunkSize
  /\ chunk_overlap \in 0..MaxChunkSize
  /\ start = 0
  /\ chunks = << >>
  /\ cuts = << >>
  /\ lstart = 0
  /\ lchunks = << >>
  /\ lcuts = << >>
  /\ \/ cpc = "loop" /\ lpc = "off"
     \/ cpc = "off" /\ lpc = "loop"

ChunkersNext == ChunkIter \/ ChunkReturn \/ LoaderIter \/ LoaderReturn

ChunkersSpec == ChunkersInit /\ [][ChunkersNext]_vars

\* ------------------------------- chunk_text on texts with blank lines ----
ParaMaxLen == 8

ParaMaxChunkSize == 7

ParaMaxOverlap == 2

\* a letter, a full stop, a line feed (two line feeds are a paragraph break)
ParaAlphabet == {"a", ".", "\n"}

ParaTexts == UNION {[1..n -> ParaAlphabet] : n \in 0..ParaMaxLen}

\* chunk_text is entered with a text that may hold paragraph breaks
ParaInit ==
  /\ RagIdle
  /\ lstart = 0
  /\ lchunks = << >>
  /\ lcuts = << >>
  /\ lpc = "off"
  /\ caller_metadata = [before |-> NoMetadataArg, after |-> NoMetadataArg]
  /\ processed_chunks = << >>
  /\ text \in ParaTexts
  /\ chunk_size \in 1..ParaMaxChunkSize
  /\ chunk_overlap \in 0..ParaMaxOverlap
  /\ start = 0
  /\ chunks = << >>
  /\ cuts = << >>
  /\ cpc = "loop"

ParaNext == ChunkIter \/ ChunkReturn

ParaSpec == ParaInit /\ [][ParaNext]_vars

\* ------------------- VectorStore.search beside delete_documents, reset ---
\* idx without the entries at the positions in S
RECURSIVE Without(_, _)
Without(idx, S) ==
  IF idx = << >> THEN << >>
  ELSE LET n == Len(idx)
           rest == Without(SubSeq(idx, 1, n - 1), S)
       IN  IF n \in S THEN rest ELSE Append(rest, idx[n])

\* search, first half: embed the query and read collection.count()
SearchCount ==
  /\ search_call.pc = "idle"
  /\ \E n \in 1..MaxN :
       search_call' = [pc |-> "counted", n_results |-> n,
                       collection_count |-> Len(index), k |-> -1,
                       cardinality |-> -1]
  /\ UNCHANGED <<documents_dir, last_op>>
  /\ UNCHANGED <<cvars, lvars, pvars, http, rvars>>

\* search, second half: collection.query with min(n_results, collection_count)
\* against the collection as it is now
SearchQuery ==
  /\ search_call.pc = "counted"
  /\ search_call' = [search_call EXCEPT
                       !.pc = "queried",
                       !.k = Min(search_call.n_results,
                                 search_call.collection_count),
                       !.cardinality = Len(index)]
  /\ UNCHANGED <<documents_dir, last_op>>
  /\ UNCHANGED <<cvars, lvars, pvars, http, rvars>>

\* search returns its results
SearchReturn ==
  /\ search_call.pc = "queried"
  /\ search_call' = NoCall
  /\ UNCHANGED <<documents_dir, last_op>>
  /\ UNCHANGED <<cvars, lvars, pvars, http, rvars>>

\* VectorStore.delete_documents(ids): collection.delete of the named entries
DeleteDocuments ==
  /\ \E S \in SUBSET (1..Len(index)) :
       /\ S # {}
       /\ index' = Without(index, S)
  /\ last_op' = [op |-> "delete_documents", status |-> 200]
  /\ UNCHANGED <<documents_dir, search_call>>
  /\ UNCHANGED <<rpc, req, retr, contexts, sent, prompt, outcome>>
  /\ UNCHANGED <<cvars, lvars, pvars, http>>

\* VectorStore.reset: delete the collection and create it again, empty
Reset ==
  /\ index' = << >>
  /\ last_op' = [op |-> "reset", status |-> 200]
  /\ UNCHANGED <<documents_dir, search_call>>
  /\ UNCHANGED <<rpc, req, retr, contexts, sent, prompt, outcome>>
  /\ UNCHANGED <<cvars, lvars, pvars, http>>

RaceInit == ChunkIdle /\ RagIdle

RaceNext ==
  \/ AddDocuments
  \/ SearchCount
  \/ SearchQuery
  \/ SearchReturn
  \/ DeleteDocuments
  \/ Reset

RaceSpec == RaceInit /\ [][RaceNext]_vars

\* ---------------------------- main.py: the documents and their entries ---
MaxStore == 4

\* the files a client uploads; the last one has no allowed extension
Files == {"a.txt", "b.txt", "c.exe"}

AllowedFiles == {"a.txt", "b.txt"}

\* tempfile.NamedTemporaryFile(suffix=file_ext).name, as base names
TmpNames == {"tmp1.txt", "tmp2.txt"}

\* the chunks chunk_text cuts from the content of a file
FileChunks(f) == IF f = "a.txt" THEN <<"a0", "a1">> ELSE <<"b0">>

\* metadata.get('source')
GetSource(metadata) ==
  IF "source" \in DOMAIN metadata THEN metadata.source ELSE None

\* process_document(dir/name, metadata={'filename': filename}): the records
\* of the chunks, with source = os.path.basename(file_path)
ProcessFile(dir, name, filename) ==
  Annotate(FileChunks(filename),
           Update([filename |-> filename],
                  [source |-> name, file_path |-> dir \o "/" \o name]))

\* the (text, metadata) entries of a list of chunk records
AsEntries(recs) ==
  [i \in 1..Len(recs) |-> [text |-> recs[i].text, metadata |-> recs[i].metadata]]

AddToIndex_Partial(idx, batch, fail_at) ==
  IF fail_at # 0
  THEN [raised |-> TRUE, index |-> idx \o SubSeq(batch, 1, fail_at - 1)]
  ELSE [raised |-> FALSE, index |-> idx \o batch]

\* VectorStore.add_documents(texts, metadatas): the embeddings of all the texts
\* are computed first, fail_at being the first text whose embedding fails
\* (0: none); then one collection.add writes every entry
AddToIndex(idx, batch, fail_at) ==
  IF fail_at # 0
  THEN [raised |-> TRUE, index |-> idx]
  ELSE [raised |-> FALSE, index |-> idx \o batch]

\* what an operation leaves in last_op: its name, argument and status, the
\* index and the directory it started from, the batch it tried to add
Op(op, arg, status, batch, fail_at) ==
  [op |-> op, arg |-> arg, status |-> status, before |-> index,
   dir_before |-> documents_dir, batch |-> batch, fail_at |-> fail_at]

\* VectorStore.add_documents called with a batch of entries
AddDocumentsCall ==
  /\ \E n \in 1..2 : \E batch \in [1..n -> Entries] : \E fail_at \in 0..n :
       LET r == AddToIndex(index, batch, fail_at)
       IN  /\ Len(index) + n <= MaxStore
           /\ index' = r.index
           /\ last_op' = Op("add_documents", "", IF r.raised THEN 500 ELSE 200,
                            batch, fail_at)
  /\ UNCHANGED <<documents_dir, search_call>>
  /\ UNCHANGED <<rpc, req, retr, contexts, sent, prompt, outcome>>
  /\ UNCHANGED <<cvars, lvars, pvars, http>>

\* POST /api/upload: refuse an extension that is not allowed (400); write the
\* content to a temporary file, process that file, add the entries, save the
\* content under file.filename; any exception gives 500
UploadDocument ==
  /\ \E f \in Files :
       IF f \notin AllowedFiles
       THEN /\ last_op' = Op("upload_document", f, 400, << >>, 0)
            /\ UNCHANGED <<index, documents_dir>>
       ELSE \E tmp \in TmpNames : \E fail_at \in 0..Len(FileChunks(f)) :
              LET batch == AsEntries(ProcessFile("/tmp", tmp, f))
                  r == AddToIndex(index, batch, fail_at)
              IN  /\ \A i \in 1..Len(index) : GetSource(index[i].metadata) # tmp
                  /\ Len(index) + Len(batch) <= MaxStore
                  /\ index' = r.index
                  /\ documents_dir' = IF r.raised THEN documents_dir
                                      ELSE documents_dir \cup {f}
                  /\ last_op' = Op("upload_document", f,
                                   IF r.raised THEN 500 ELSE 200, batch, fail_at)
  /\ UNCHANGED search_call
  /\ UNCHANGED <<rpc, req, retr, contexts, sent, prompt, outcome>>
  /\ UNCHANGED <<cvars, lvars, pvars, http>>

\* {meta.get('source', '') for meta in existing_docs['metadatas']}
ExistingSources(idx) ==
  {IF "source" \in DOMAIN idx[i].metadata THEN idx[i].metadata.source ELSE ""
     : i \in 1..Len(idx)}

\* the orders in which os.listdir can give the files of S
Listings(S) ==
  {ord \in [1..Cardinality(S) -> S] :
     \A i, j \in 1..Cardinality(S) : i # j => ord[i] # ord[j]}

\* the entries added for the files of ord, one add_documents per file
RECURSIVE LoadAll(_)
LoadAll(ord) ==
  IF ord = << >> THEN << >>
  ELSE AsEntries(ProcessFile("./documents", ord[1], ord[1])) \o LoadAll(Tail(ord))

\* load_initial_documents, run when main.py starts: every file of the
\* directory whose name is not a source of the index is processed and added;
\* a file whose processing or embedding fails is logged and skipped
LoadInitialDocuments ==
  /\ \E failed \in SUBSET (documents_dir \ ExistingSources(index)) :
       \E ord \in Listings((documents_dir \ ExistingSources(index)) \ failed) :
          /\ Len(index) + Len(LoadAll(ord)) <= MaxStore
          /\ index' = index \o LoadAll(ord)
          /\ last_op' = Op("load_initial_documents", "", 200, LoadAll(ord), 0)
  /\ UNCHANGED <<documents_dir, search_call>>
  /\ UNCHANGED <<rpc, req, retr, contexts, sent, prompt, outcome>>
  /\ UNCHANGED <<cvars, lvars, pvars, http>>

MatchingIds_ByFilename(idx, document_source) ==
  {i \in 1..Len(idx) :
     "filename" \in DOMAIN idx[i].metadata
       /\ idx[i].metadata.filename = document_source}

\* the entries delete_document selects: metadata.get('source') == document_source
MatchingIds(idx, document_source) ==
  {i \in 1..Len(idx) : GetSource(idx[i].metadata) = document_source}

\* DELETE /api/documents/{document_source}: 404 when no entry matches, else
\* delete the matching entries and remove the file of that name if there is
\* one; a failure of the store gives 500
DeleteDocument ==
  /\ \E document_source \in AllowedFiles \cup TmpNames : \E fails \in BOOLEAN :
       LET ids_to_delete == MatchingIds(index, document_source)
       IN  IF fails
           THEN /\ last_op' = Op("delete_document", document_source, 500, << >>, 0)
                /\ UNCHANGED <<index, documents_dir>>
           ELSE IF ids_to_delete = {}
           THEN /\ last_op' = Op("delete_document", document_source, 404, << >>, 0)
                /\ UNCHANGED <<index, documents_dir>>
           ELSE /\ index' = Without(index, ids_to_delete)
                /\ documents_dir' = documents_dir \ {document_source}
                /\ last_op' = Op("delete_document", document_source, 200, << >>, 0)
  /\ UNCHANGED search_call
  /\ UNCHANGED <<rpc, req, retr, contexts, sent, prompt, outcome>>
  /\ UNCHANGED <<cvars, lvars, pvars, http>>

DocsInit == ChunkIdle /\ RagIdle

DocsNext ==
  \/ AddDocumentsCall
  \/ UploadDocument
  \/ LoadInitialDocuments
  \/ DeleteDocument
  \/ Reset

DocsSpec == DocsInit /\ [][DocsNext]_vars

\* ------------------------------------------------------------ claims -----
HasText == \E i \in 1..Len(text) : text[i] \notin Whitespace

\* C1: for every text and valid configuration chunk_text terminates.  The loop
\* body is a function of (text, start), so the loop terminates exactly when it
\* never comes back to a cursor value it has already processed.
C1_Terminates ==
  (ValidConfig /\ cpc = "loop" /\ start < Len(text)) => start \notin StartsSeen

\* C2: coverage: when chunk_text returns under a valid configuration, every
\* position of the text lies in one of the slices [start, end) it cut.
C2_Coverage ==
  (ValidConfig /\ cpc = "done") =>
     \A i \in 0..(Len(text) - 1) :
        \E k \in 1..Len(cuts) : cuts[k][1] <= i /\ i < cuts[k][2]

\* C3: a text shorter than chunk_size with a non-whitespace character yields
\* exactly one chunk, the whole trimmed text.
C3_ShortTextOneChunk ==
  (ValidConfig /\ cpc = "done" /\ HasText /\ Len(text) < chunk_size) =>
     chunks = <<Strip(text)>>

\* the positions of the result rows whose similarity reaches the floor
KeptRows(results, min_similarity) ==
  {i \in 1..Len(results) : Scale - results[i].distance >= min_similarity}

\* the j-th smallest element of a set of positions
Nth(S, j) == CHOOSE i \in S : Cardinality({x \in S : x <= i}) = j

\* the history messages of a sent message list: what lies between the
\* optional leading system message and the final user message
Forwarded(messages) ==
  LET off == IF messages[1].role = "system" THEN 1 ELSE 0
  IN  SubSeq(messages, off + 1, Len(messages) - 1)

UserMessage(query) == [role |-> "user", content |-> <<query>>]

Requested(op) == rpc = "done" /\ req.op = op

C5_IndexFailureGivesEmpty ==
  (retr.called /\ retr.fault \in {"count", "query"}) =>
     /\ retr.search.raised
     /\ retr.search.error = "index"
     /\ ~retr.raised
     /\ retr.value = << >>
     /\ contexts = << >>
     /\ rpc \in {"complete", "done"}
     /\ (rpc = "done" /\ req.op # "retrieve_context") => Len(sent) = 1

C5_Witness ==
  /\ Requested("chat")
  /\ retr.called
  /\ retr.fault = "query"
  /\ retr.search.k > 0
  /\ Len(sent) = 1
  /\ outcome = "ok"

C7_EmptyContextIsQuery ==
  /\ (Requested("format_prompt_with_context") /\ contexts = << >>)
        => prompt = <<req.query>>
  /\ (Requested("generate_response") /\ contexts = << >>)
        => sent = << <<UserMessage(req.query)>> >>

C7_Witness ==
  /\ Requested("format_prompt_with_context")
  /\ contexts = << >>
  /\ req.system_prompt # None
  /\ Len(index) > 0
  /\ prompt = <<req.query>>

C9_TurnCap ==
  Requested("chat") =>
     /\ Len(Forwarded(sent[1])) <= HistoryCap
     /\ Forwarded(sent[1]) = LastN(req.history, HistoryCap)

C12_QueryClamped ==
  (retr.called /\ retr.fault \in {"none", "query"}) =>
     /\ retr.search.k <= Len(index)
     /\ retr.search.k <= req.n_results
     /\ retr.search.k = Len(index) \/ retr.search.k = req.n_results
     /\ ~retr.search.raised => Len(retr.search.results) = retr.search.k

C12_Witness ==
  /\ retr.called
  /\ retr.fault = "none"
  /\ Len(index) > 0
  /\ req.n_results > Len(index)
  /\ retr.search.k = Len(index)
  /\ Len(retr.search.results) = Len(index)

\* C17: every record retrieve_context returns has a similarity in [0, 1],
\* whatever min_similarity the caller passes.
C17_SimilarityInUnitRange ==
  retr.called =>
     \A j \in 1..Len(retr.value) :
        0 <= retr.value[j].similarity /\ retr.value[j].similarity <= Scale

\* C18: with the default min_similarity = 0.0 retrieve_context filters
\* nothing: every row the index returns is in the result.
C18_DefaultKeepsAll ==
  (retr.called /\ ~retr.search.raised
     /\ req.min_similarity = DefaultMinSimilarity) =>
     Len(retr.value) = Len(retr.search.results)

\* C11: when the completion gateway fails during a chat request, streaming or
\* not, the request fails towards the caller and no text is delivered as
\* response content in place of the answer.
C11_CompletionFailurePropagates ==
  (rpc = "done" /\ req.op = "api_chat" /\ http.gateway # "none") =>
     /\ http.status = 500
     /\ \A i \in 1..Len(http.body) : http.body[i] # ErrorText

\* C13: with chunk_size <= 0 or chunk_overlap >= chunk_size chunk_text fails
\* with an error: it never returns a chunk list.
C13_InvalidConfigRejected ==
  ~ValidConfig => cpc \notin {"done", "returned"}

\* C16: process_document on a document of n chunks returns n records in chunk
\* order with chunk_index 0, 1, ..., n-1 and total_chunks = n on each.
C16_Ordinals ==
  cpc = "returned" =>
     /\ Len(processed_chunks) = Len(chunks)
     /\ \A i \in 1..Len(processed_chunks) :
          /\ processed_chunks[i].text = chunks[i]
          /\ processed_chunks[i].metadata.chunk_index = i - 1
          /\ processed_chunks[i].metadata.total_chunks = Len(chunks)
          /\ processed_chunks[i].metadata.source = FileName

C16_Witness ==
  /\ cpc = "returned"
  /\ Len(processed_chunks) >= 3
  /\ processed_chunks[3].metadata.chunk_index = 2
  /\ processed_chunks[1].text # processed_chunks[2].text

\* C20: after process_document returns, the caller's metadata mapping has the
\* keys and values it had before the call.
C20_CallerMetadataUntouched ==
  cpc = "returned" => caller_metadata.after = caller_metadata.before

\* C19: under a valid configuration the loop of chunk_text executes at most
\* ceil(len(text) / (chunk_size - chunk_overlap)) iterations (cuts has one
\* entry per iteration; ceil(a / b) is (a + b - 1) \div b).
C19_IterationBound ==
  ValidConfig =>
     LET step == chunk_size - chunk_overlap
     IN  Len(cuts) <= (Len(text) + step - 1) \div step

\* C15: when the window [start, start + chunk_size) of a non-final iteration
\* holds a paragraph break (two line feeds at p, p + 1) with p past
\* start + chunk_size / 2, the chunk of that iteration is the text up to such a
\* break: text[start:p] trimmed.
C15_ParagraphBreakPreferred ==
  \A k \in 1..Len(cuts) :
     LET st == cuts[k][1]
         end == cuts[k][2]
         P == {p \in st..(st + chunk_size - 2) :
                 /\ p + 2 <= Len(text)
                 /\ text[p + 1] = "\n"
                 /\ text[p + 2] = "\n"
                 /\ 2 * p > 2 * st + chunk_size}
     IN  (st + chunk_size < Len(text) /\ P # {}) =>
            \E p \in P : Strip(Slice(text, st, end)) = Strip(Slice(text, st, p))

\* C14: no chunk emitted by DocumentProcessor.chunk_text or by
\* DocumentLoader.chunk_text is empty or made of whitespace only, whatever the
\* text and the configuration.
C14_NoBlankChunk ==
  /\ \A i \in 1..Len(chunks) :
        \E j \in 1..Len(chunks[i]) : chunks[i][j] \notin Whitespace
  /\ \A i \in 1..Len(lchunks) :
        \E j \in 1..Len(lchunks[i].text) : lchunks[i].text[j] \notin Whitespace

\* the loader has returned two chunks or more and has dropped a slice that
\* held whitespace only
C14_Witness ==
  /\ lpc = "done"
  /\ Len(lchunks) >= 2
  /\ \E k \in 1..Len(lcuts) :
        /\ PySlice(text, lcuts[k][1], lcuts[k][2]) # << >>
        /\ Strip(PySlice(text, lcuts[k][1], lcuts[k][2])) = << >>

\* C21: for every text and valid configuration DocumentLoader.chunk_text
\* terminates.  The loop body is a function of (text, start), so the loop
\* terminates exactly when it never comes back to a cursor value it has
\* already processed and never runs away below -len(text).
C21_LoaderTerminates ==
  (ValidConfig /\ lpc = "loop" /\ lstart < Len(text)) =>
     /\ lstart \notin LoaderStartsSeen
     /\ lstart + chunk_size > 0 - Len(text)

\* C22: midpoint guard of the loader: a non-final slice [start, end) is cut
\* at a paragraph or sentence break only past start + chunk_size / 2, else at
\* the hard end, so it is longer than chunk_size / 2.
C22_MidpointGuard ==
  ValidConfig =>
     \A k \in 1..Len(lcuts) :
        LET st == lcuts[k][1]
            end == lcuts[k][2]
        IN  st + chunk_size < Len(text) => 2 * (end - st) > chunk_size

\* C23: in DocumentProcessor.chunk_text with chunk_size > 0 and
\* 0 <= chunk_overlap <= chunk_size // 2, the cursor strictly increases on
\* every iteration and is > 0 after the first, so the loop is left only with
\* start >= len(text).
C23_CursorAdvances ==
  (chunk_size > 0 /\ 0 <= chunk_overlap /\ chunk_overlap <= chunk_size \div 2) =>
     /\ \A k \in 1..(Len(cuts) - 1) : cuts[k][1] < cuts[k + 1][1]
     /\ cuts # << >> => (start > cuts[Len(cuts)][1] /\ start > 0)
     /\ (cpc \in {"done", "returned"} /\ cuts # << >>) => start >= Len(text)

\* a run of three iterations or more with a positive overlap of at most half
\* the chunk size, one of them cut short at a sentence end or a blank
C23_Witness ==
  /\ cpc = "done"
  /\ chunk_overlap > 0
  /\ chunk_overlap <= chunk_size \div 2
  /\ Len(cuts) >= 3
  /\ \E k \in 1..Len(cuts) :
        cuts[k][2] < Len(text) /\ cuts[k][2] - cuts[k][1] < chunk_size

\* C24: with chunk_size > 0, every chunk emitted by DocumentProcessor.chunk_text
\* or by DocumentLoader.chunk_text has at most chunk_size characters, whatever
\* the text and the overlap.
C24_ChunkWithinSize ==
  chunk_size > 0 =>
     /\ \A i \in 1..Len(chunks) : Len(chunks[i]) <= chunk_size
     /\ \A i \in 1..Len(lchunks) : Len(lchunks[i].text) <= chunk_size

\* the loader has emitted several chunks, one of them of full size and cut
\* from a slice that started at a negative cursor
C24_Witness ==
  /\ chunk_size > 1
  /\ Len(lchunks) >= 2
  /\ \E i \in 1..Len(lchunks) :
        lchunks[i].char_start < 0 /\ Len(lchunks[i].text) = chunk_size

\* C25: every chunk emitted by DocumentLoader.chunk_text (under a valid
\* configuration) carries offsets that are positions of the document:
\* 0 <= char_start < char_end <= len(text).
C25_OffsetsInDocument ==
  ValidConfig =>
     \A i \in 1..Len(lchunks) :
        /\ 0 <= lchunks[i].char_start
        /\ lchunks[i].char_start < lchunks[i].char_end
        /\ lchunks[i].char_end <= Len(text)

\* C26: when a search runs beside delete_documents or reset on the same
\* store, the k it passes to the index query is at most the number of entries
\* the index holds when the query executes.
C26_QueryWithinCardinality ==
  search_call.pc = "queried" => search_call.k <= search_call.cardinality

\* C27: in a non-streaming chat request with use_context, the sources
\* reported in the response are those of exactly the context records that were
\* injected into the prompt sent to the completion gateway, in the same order.
C27_SourcesAreInjectedContexts ==
  (rpc = "done" /\ req.op = "api_chat" /\ req.use_context /\ http.has_sources) =>
     http.sources = [i \in 1..Len(contexts) |->
                       [source |-> Source(contexts[i].metadata),
                        similarity |-> contexts[i].similarity]]

\* C28: a file that has entries in the index and is saved in the documents
\* directory (as after upload_document) is skipped by a later run of
\* load_initial_documents: the number of entries of that file is unchanged.
C28_RestartAddsNoDuplicate ==
  last_op.op = "load_initial_documents" =>
     LET EntriesOf(idx, f) ==
           {i \in 1..Len(idx) :
              "filename" \in DOMAIN idx[i].metadata /\ idx[i].metadata.filename = f}
     IN  \A f \in last_op.dir_before :
            EntriesOf(last_op.before, f) # {} =>
               Cardinality(EntriesOf(index, f)) =
                 Cardinality(EntriesOf(last_op.before, f))

C30_AddAllOrNothing ==
  last_op.op = "add_documents" =>
     IF last_op.fail_at # 0
     THEN last_op.status = 500 /\ index = last_op.before
     ELSE last_op.status = 200 /\ index = last_op.before \o last_op.batch

\* the embedding of the second text of a batch failed, after the first one
\* had been embedded, on an index that held an entry
C30_Witness ==
  /\ last_op.op = "add_documents"
  /\ last_op.fail_at = 2
  /\ Len(last_op.batch) = 2
  /\ last_op.before # << >>
  /\ index = last_op.before

====
